---- MODULE Spec2Model ----
(***************************************************************************)
(* Model of run.py: the AdvancedMarketIntelligence metric computations     *)
(* (calculate_basic_stats, analyze_market_dynamics, analyze_competitors,   *)
(* analyze_pricing, calculate_advanced_metrics) and main's keyword loop.   *)
(*                                                                         *)
(* Text is a sequence of one-character strings, so that str.replace,       *)
(* str.strip, str.lower, int() and float() are computed, not assumed.      *)
(* A float is an exact rational <<n, d>> with d > 0 in lowest terms;       *)
(* <<0, 0>> is NaN (every ordered comparison with it is FALSE).  IEEE      *)
(* rounding is not modelled.                                               *)
(***************************************************************************)
EXTENDS Integers, Sequences, FiniteSets, TLC

VARIABLES pc, round, line, keyword, gigs_data, metrics, viz_path, report,
          e, out, steps, metrics_cache, historical_data, called

vars == <<pc, round, line, keyword, gigs_data, metrics, viz_path, report,
          e, out, steps, metrics_cache, historical_data, called>>

(***************************************************************************)
(* Bounds of the model.                                                    *)
(***************************************************************************)
MaxRounds == 2
MaxScraped == 1
MaxModuleRecords == 2
MaxOrderRecords == 7
MaxPriceRecords == 5

(***************************************************************************)
(* Text: str.replace, str.strip, str.lower.                                *)
(***************************************************************************)
Digits == <<"0", "1", "2", "3", "4", "5", "6", "7", "8", "9">>

IsDigit(c) == \E i \in 1..10 : Digits[i] = c

DigitVal(c) == (CHOOSE i \in 1..10 : Digits[i] = c) - 1

RECURSIVE Replace(_, _, _)
Replace(s, old, new) ==
    IF s = <<>> THEN <<>>
    ELSE IF Head(s) = old THEN new \o Replace(Tail(s), old, new)
    ELSE <<Head(s)>> \o Replace(Tail(s), old, new)

RECURSIVE LStrip(_)
LStrip(s) ==
    IF s # <<>> /\ Head(s) = " " THEN LStrip(Tail(s)) ELSE s

RECURSIVE RStrip(_)
RStrip(s) ==
    IF s # <<>> /\ s[Len(s)] = " " THEN RStrip(SubSeq(s, 1, Len(s) - 1)) ELSE s

Strip(s) == RStrip(LStrip(s))

LowerChar(c) ==
    CASE c = "Q" -> "q"
      [] c = "U" -> "u"
      [] c = "I" -> "i"
      [] c = "T" -> "t"
      [] c = "K" -> "k"
      [] OTHER -> c

Lower(s) == [i \in 1..Len(s) |-> LowerChar(s[i])]

(***************************************************************************)
(* Exact rationals standing for Python floats.                             *)
(***************************************************************************)
Abs(x) == IF x < 0 THEN -x ELSE x

RECURSIVE GCD(_, _)
GCD(a, b) == IF b = 0 THEN a ELSE GCD(b, a % b)

NaN == <<0, 0>>

IsNaN(x) == x[2] = 0

RNorm(n, d) ==
    IF d = 0 THEN NaN
    ELSE LET g == GCD(Abs(n), Abs(d))
             s == IF d < 0 THEN -1 ELSE 1
         IN  <<(s * n) \div g, (s * d) \div g>>

RInt(n) == <<n, 1>>

\* sums and products are reduced before they are formed, to keep the
\* intermediate integers small
RAdd(x, y) ==
    IF IsNaN(x) \/ IsNaN(y) THEN NaN
    ELSE LET g == GCD(x[2], y[2])
         IN  RNorm(x[1] * (y[2] \div g) + y[1] * (x[2] \div g), (x[2] \div g) * y[2])

RNeg(x) == <<-x[1], x[2]>>

RSub(x, y) == RAdd(x, RNeg(y))

RMul(x, y) ==
    IF IsNaN(x) \/ IsNaN(y) THEN NaN
    ELSE LET a == RNorm(x[1], y[2])
             b == RNorm(y[1], x[2])
         IN  RNorm(a[1] * b[1], a[2] * b[2])

RLt(x, y) == ~IsNaN(x) /\ ~IsNaN(y) /\ x[1] * y[2] < y[1] * x[2]

RLe(x, y) == ~IsNaN(x) /\ ~IsNaN(y) /\ x[1] * y[2] <= y[1] * x[2]

RGt(x, y) == RLt(y, x)

RGe(x, y) == RLe(y, x)

RFloor(x) == x[1] \div x[2]

RECURSIVE RSum(_)
RSum(xs) == IF xs = <<>> THEN RInt(0) ELSE RAdd(Head(xs), RSum(Tail(xs)))

RECURSIVE IntSum(_)
IntSum(xs) == IF xs = <<>> THEN 0 ELSE Head(xs) + IntSum(Tail(xs))

(***************************************************************************)
(* int(text) and float(text).  A parse is [exc, val]: exc = "None" and the *)
(* value, or exc = "ValueError".  The texts of the model are over digits,  *)
(* '.', '-', '+', ' ', '$', 'K' and ','; underscores, exponents and the    *)
(* words inf/nan are outside that alphabet.                                *)
(***************************************************************************)
AllDigits(s) == s # <<>> /\ \A i \in 1..Len(s) : IsDigit(s[i])

RECURSIVE DigitsVal(_)
DigitsVal(s) ==
    IF s = <<>> THEN 0
    ELSE 10 * DigitsVal(SubSeq(s, 1, Len(s) - 1)) + DigitVal(s[Len(s)])

RECURSIVE Pow10(_)
Pow10(k) == IF k = 0 THEN 1 ELSE 10 * Pow10(k - 1)

HasSign(s) == s # <<>> /\ Head(s) \in {"-", "+"}

Unsigned(s) == IF HasSign(s) THEN Tail(s) ELSE s

SignOf(s) == IF s # <<>> /\ Head(s) = "-" THEN -1 ELSE 1

ValueError == [exc |-> "ValueError", val |-> 0]

IntParse(text) ==
    LET t == Strip(text)
        u == Unsigned(t)
    IN  IF AllDigits(u)
        THEN [exc |-> "None", val |-> SignOf(t) * DigitsVal(u)]
        ELSE ValueError

DotAt(s) == IF \E i \in 1..Len(s) : s[i] = "."
            THEN CHOOSE i \in 1..Len(s) : s[i] = "." /\ \A j \in 1..(i - 1) : s[j] # "."
            ELSE 0

FloatParse(text) ==
    LET t == Strip(text)
        u == Unsigned(t)
        k == DotAt(u)
        ip == IF k = 0 THEN u ELSE SubSeq(u, 1, k - 1)
        fp == IF k = 0 THEN <<>> ELSE SubSeq(u, k + 1, Len(u))
        ok == /\ ip \o fp # <<>>
              /\ \A i \in 1..Len(ip) : IsDigit(ip[i])
              /\ \A i \in 1..Len(fp) : IsDigit(fp[i])
    IN  IF ok
        THEN [exc |-> "None",
              val |-> RNorm(SignOf(t) * (DigitsVal(ip) * Pow10(Len(fp)) + DigitsVal(fp)),
                            Pow10(Len(fp)))]
        ELSE [exc |-> "ValueError", val |-> NaN]

(***************************************************************************)
(* numpy: mean, median, std, percentile (linear interpolation), histogram. *)
(* On an empty list mean, median and std return nan with a warning; what   *)
(* percentile does there depends on the numpy build (nan, or IndexError),  *)
(* so it is an input of the model: emptyPercentile.                        *)
(***************************************************************************)
Raised(name) == [exc |-> name, val |-> <<>>]

Returned(v) == [exc |-> "None", val |-> v]

RECURSIVE Insert(_, _)
Insert(x, s) ==
    IF s = <<>> THEN <<x>>
    ELSE IF RLe(x, Head(s)) THEN <<x>> \o s
    ELSE <<Head(s)>> \o Insert(x, Tail(s))

RECURSIVE Sorted(_)
Sorted(xs) == IF xs = <<>> THEN <<>> ELSE Insert(Head(xs), Sorted(Tail(xs)))

Mean(xs) == IF xs = <<>> THEN NaN ELSE RMul(RSum(xs), <<1, Len(xs)>>)

Median(xs) ==
    IF xs = <<>> THEN NaN
    ELSE LET s == Sorted(xs)
             n == Len(xs)
         IN  IF n % 2 = 1 THEN s[(n + 1) \div 2]
             ELSE RMul(RAdd(s[n \div 2], s[n \div 2 + 1]), <<1, 2>>)

\* np.std is the square root of this population variance
Variance(xs) ==
    IF xs = <<>> THEN NaN
    ELSE LET m == Mean(xs)
         IN  Mean([i \in 1..Len(xs) |-> RMul(RSub(xs[i], m), RSub(xs[i], m))])

\* np.percentile(xs, q) of a non-empty list, q an integer in 0..100
Percentile(xs, q) ==
    LET s == Sorted(xs)
        n == Len(xs)
        rank == q * (n - 1)
        lo == rank \div 100 + 1
        hi == IF lo < n THEN lo + 1 ELSE n
    IN  RAdd(s[lo], RMul(RSub(s[hi], s[lo]), RNorm(rank % 100, 100)))

Quartiles(xs, emptyPercentile) ==
    IF xs = <<>>
    THEN IF emptyPercentile = "nan" THEN Returned(<<NaN, NaN, NaN>>)
         ELSE Raised("IndexError")
    ELSE Returned(<<Percentile(xs, 25), Percentile(xs, 50), Percentile(xs, 75)>>)

RMin(xs) == CHOOSE x \in {xs[i] : i \in 1..Len(xs)} :
                \A j \in 1..Len(xs) : RLe(x, xs[j])

RMax(xs) == CHOOSE x \in {xs[i] : i \in 1..Len(xs)} :
                \A j \in 1..Len(xs) : RGe(x, xs[j])

HistogramBins == 5

\* np.histogram(xs, bins=5)[0].tolist()
Histogram(xs) ==
    IF xs = <<>> THEN [b \in 1..HistogramBins |-> 0]
    ELSE LET mn == RMin(xs)
             mx == RMax(xs)
             first == IF mn = mx THEN RSub(mn, <<1, 2>>) ELSE mn
             last == IF mn = mx THEN RAdd(mx, <<1, 2>>) ELSE mx
             width == RSub(last, first)
             Bin(x) == IF x = last THEN HistogramBins
                       ELSE RFloor(RMul(RMul(RSub(x, first), RInt(HistogramBins)),
                                        <<width[2], width[1]>>)) + 1
         IN  [b \in 1..HistogramBins |->
                 Cardinality({i \in 1..Len(xs) : Bin(xs[i]) = b})]

(***************************************************************************)
(* Field normalisation as the methods write it inline.                     *)
(***************************************************************************)
ParsePrice(gig) == FloatParse(Replace(gig.price, "$", <<>>))

ParseOrders(gig) ==
    IntParse(Replace(Replace(gig.orders, "K", <<"0", "0", "0">>), "+", <<>>))

ParseRating(gig) == FloatParse(gig.rating)

PricesParse(gigs) == \A i \in 1..Len(gigs) : ParsePrice(gigs[i]).exc = "None"

OrdersParse(gigs) == \A i \in 1..Len(gigs) : ParseOrders(gigs[i]).exc = "None"

RatingsParse(gigs) == \A i \in 1..Len(gigs) : ParseRating(gigs[i]).exc = "None"

PriceValues(gigs) == [i \in 1..Len(gigs) |-> ParsePrice(gigs[i]).val]

OrderValues(gigs) == [i \in 1..Len(gigs) |-> ParseOrders(gigs[i]).val]

RatingValues(gigs) == [i \in 1..Len(gigs) |-> ParseRating(gigs[i]).val]

(***************************************************************************)
(* calculate_basic_stats                                                   *)
(***************************************************************************)
calculate_basic_stats(gigs, emptyPercentile) ==
    IF ~PricesParse(gigs) THEN Raised("ValueError")
    ELSE IF ~OrdersParse(gigs) THEN Raised("ValueError")
    ELSE LET prices == PriceValues(gigs)
             orders == OrderValues(gigs)
             ro == [i \in 1..Len(orders) |-> RInt(orders[i])]
             q == Quartiles(prices, emptyPercentile)
         IN  IF q.exc # "None" THEN q
             ELSE Returned(
                 [price_stats |-> [mean |-> Mean(prices),
                                   median |-> Median(prices),
                                   std |-> [sqrt_of |-> Variance(prices)],
                                   quartiles |-> [type |-> "ndarray", data |-> q.val]],
                  order_stats |-> [mean |-> Mean(ro),
                                   median |-> Median(ro),
                                   total |-> IntSum(orders)]])

(***************************************************************************)
(* analyze_market_dynamics                                                 *)
(***************************************************************************)
LevelDistribution(gigs) ==
    LET levels == {gigs[i].level : i \in 1..Len(gigs)}
    IN  [lv \in levels |->
            RMul(RNorm(Cardinality({i \in 1..Len(gigs) : gigs[i].level = lv}),
                       Len(gigs)), RInt(100))]

\* variant: the share taken against the mean order count instead of the sum
MarketSharesOfMean(gigs) ==
    IF gigs = <<>> THEN Returned(<<>>)
    ELSE IF ~OrdersParse(gigs) THEN Raised("ValueError")
    ELSE LET orders == OrderValues(gigs)
             total == IntSum(orders)
         IN  IF total = 0 THEN Raised("ZeroDivisionError")
             ELSE Returned([i \in 1..Len(gigs) |->
                               RMul(RNorm(orders[i] * Len(gigs), total), RInt(100))])

\* (orders_i / sum of orders) * 100 for each record; the division is Python's
\* true division and raises on a zero total
MarketShares(gigs) ==
    IF gigs = <<>> THEN Returned(<<>>)
    ELSE IF ~OrdersParse(gigs) THEN Raised("ValueError")
    ELSE LET orders == OrderValues(gigs)
             total == IntSum(orders)
         IN  IF total = 0 THEN Raised("ZeroDivisionError")
             ELSE Returned([i \in 1..Len(gigs) |->
                               RMul(RNorm(orders[i], total), RInt(100))])

HHI(shares) == RSum([i \in 1..Len(shares) |-> RMul(shares[i], shares[i])])

HighThreshold == 2500
ModerateThreshold == 1500

\* variant: the upper threshold taken inclusively
ConcentrationLevelInclusiveHigh(hhi) ==
    IF RGe(hhi, RInt(HighThreshold)) THEN "High"
    ELSE IF RGt(hhi, RInt(ModerateThreshold)) THEN "Moderate"
    ELSE "Low"

\* variant: the lower threshold taken inclusively
ConcentrationLevelInclusiveModerate(hhi) ==
    IF RGt(hhi, RInt(HighThreshold)) THEN "High"
    ELSE IF RGe(hhi, RInt(ModerateThreshold)) THEN "Moderate"
    ELSE "Low"

ConcentrationLevel(hhi) ==
    IF RGt(hhi, RInt(HighThreshold)) THEN "High"
    ELSE IF RGt(hhi, RInt(ModerateThreshold)) THEN "Moderate"
    ELSE "Low"

analyze_market_dynamics(gigs) ==
    LET shares == MarketShares(gigs)
    IN  IF shares.exc # "None" THEN shares
        ELSE LET hhi == HHI(shares.val)
             IN  Returned(
                   [level_distribution |-> LevelDistribution(gigs),
                    market_concentration |->
                        [hhi |-> hhi,
                         concentration_level |-> ConcentrationLevel(hhi)]])

(***************************************************************************)
(* analyze_competitors.  response_times are random.uniform(1, 24) draws:   *)
(* an input of the model, one value per record.                            *)
(***************************************************************************)
FastResponse == 3

analyze_competitors(gigs, response_times) ==
    IF ~RatingsParse(gigs) THEN Raised("ValueError")
    ELSE LET ratings == RatingValues(gigs)
             rt == [i \in 1..Len(response_times) |-> RInt(response_times[i])]
         IN  Returned(
               [response_metrics |->
                   [avg_response_time |-> Mean(rt),
                    fast_responders |->
                        Cardinality({i \in 1..Len(rt) : RLt(rt[i], RInt(FastResponse))})],
                quality_metrics |->
                   [avg_rating |-> Mean(ratings),
                    rating_distribution |-> Histogram(ratings)]])

(***************************************************************************)
(* analyze_pricing.  np.percentile is called inside the generators, once   *)
(* per price, so an empty list never reaches it.                           *)
(***************************************************************************)
BudgetPercentile == 33
PremiumPercentile == 66

\* not defined in run.py; the specification makes it a numeric stub
calculate_price_elasticity(gigs) == RInt(0)

IsBudget(p, prices) == RLt(p, Percentile(prices, BudgetPercentile))

IsMidRange(p, prices) ==
    RLe(Percentile(prices, BudgetPercentile), p) /\ RLt(p, Percentile(prices, PremiumPercentile))

\* variant: premium taken strictly above the 66th percentile
IsPremiumStrict(p, prices) == RGt(p, Percentile(prices, PremiumPercentile))

IsPremium(p, prices) == RGe(p, Percentile(prices, PremiumPercentile))

analyze_pricing(gigs) ==
    IF ~PricesParse(gigs) THEN Raised("ValueError")
    ELSE LET prices == PriceValues(gigs)
             idx == 1..Len(prices)
         IN  Returned(
               [price_segments |->
                   [budget |-> Cardinality({i \in idx : IsBudget(prices[i], prices)}),
                    mid_range |-> Cardinality({i \in idx : IsMidRange(prices[i], prices)}),
                    premium |-> Cardinality({i \in idx : IsPremium(prices[i], prices)})],
                price_elasticity |-> calculate_price_elasticity(gigs)])

(***************************************************************************)
(* analyze_quality_metrics and analyze_trends call helpers run.py does not *)
(* define; they are modelled as the specification describes them.          *)
(***************************************************************************)
TrendWindow == 30

calculate_service_quality(gigs) == RInt(0)

calculate_reliability_score(gigs) == RInt(0)

simulate_trend_data(days) == [points |-> days, simulated |-> TRUE]

analyze_quality_metrics(gigs) ==
    Returned([service_quality |-> calculate_service_quality(gigs),
              reliability_score |-> calculate_reliability_score(gigs)])

analyze_trends(gigs) ==
    Returned([dates |-> [points |-> TrendWindow],
              avg_prices |-> simulate_trend_data(TrendWindow),
              total_orders |-> simulate_trend_data(TrendWindow),
              active_sellers |-> simulate_trend_data(TrendWindow)])

(***************************************************************************)
(* calculate_advanced_metrics: the six groups in the order of the dict     *)
(* literal; the first exception ends the call.                             *)
(***************************************************************************)
calculate_advanced_metrics(gigs, emptyPercentile, response_times) ==
    LET bs == calculate_basic_stats(gigs, emptyPercentile)
        md == analyze_market_dynamics(gigs)
        ca == analyze_competitors(gigs, response_times)
        pa == analyze_pricing(gigs)
        qm == analyze_quality_metrics(gigs)
        mt == analyze_trends(gigs)
    IN  IF bs.exc # "None" THEN Raised(bs.exc)
        ELSE IF md.exc # "None" THEN Raised(md.exc)
        ELSE IF ca.exc # "None" THEN Raised(ca.exc)
        ELSE IF pa.exc # "None" THEN Raised(pa.exc)
        ELSE IF qm.exc # "None" THEN Raised(qm.exc)
        ELSE IF mt.exc # "None" THEN Raised(mt.exc)
        ELSE Returned([basic_stats |-> bs.val,
                       market_dynamics |-> md.val,
                       competitor_analysis |-> ca.val,
                       price_analysis |-> pa.val,
                       quality_metrics |-> qm.val,
                       market_trends |-> mt.val])

(***************************************************************************)
(* generate_visualizations, create_report, save_report.  The file system   *)
(* is an input: io = "None" (every call succeeds) or "OSError".  The plot, *)
(* summary and recommendation helpers run.py does not define are modelled  *)
(* as returning.                                                           *)
(***************************************************************************)
generate_visualizations(m, kw, io) ==
    IF io # "None" THEN Raised(io)
    ELSE Returned([dir |-> "visualizations", keyword |-> kw])

generate_market_summary(m) ==
    [concentration |-> m.market_dynamics.market_concentration.concentration_level]

generate_recommendations(m) == <<>>

create_report(kw, m, path) ==
    Returned([keyword |-> kw,
              market_metrics |-> m,
              visualization_path |-> path,
              market_summary |-> generate_market_summary(m),
              recommendations |-> generate_recommendations(m)])

\* json.dump has no encoder for numpy.ndarray, the type of
\* basic_stats.price_stats.quartiles
JsonSerializable(rep) ==
    rep.market_metrics.basic_stats.price_stats.quartiles.type # "ndarray"

save_report(rep, io) ==
    LET keyword_slug == Lower(Replace(rep.keyword, " ", <<"_">>))
    IN  IF io # "None" THEN Raised(io)
        ELSE IF ~JsonSerializable(rep) THEN Raised("TypeError")
        ELSE Returned([json_report |-> [dir |-> "reports", slug |-> keyword_slug, ext |-> "json"],
                       excel_report |-> [dir |-> "reports", slug |-> keyword_slug, ext |-> "xlsx"],
                       visualizations |-> rep.visualization_path])

(***************************************************************************)
(* Inputs of the model.                                                    *)
(***************************************************************************)
Gig(price, orders, rating, level) ==
    [price |-> price, orders |-> orders, rating |-> rating, level |-> level]

Rating48 == <<"4", ".", "8">>

\* well-formed listings, and one listing for each malformed field
GoodGig == Gig(<<"$", "5">>, <<"1", "K", "+">>, Rating48, "Level 2")
ZeroOrdersGig == Gig(<<"$", "1", "0", ".", "5">>, <<"0">>, <<"5">>, "New Seller")
NoDigitPriceGig == Gig(<<"$">>, <<"5", "0", "0">>, Rating48, "Level 1")
CommaPriceGig == Gig(<<"$", "1", ",", "0", "0", "0">>, <<"2", "K">>, Rating48, "Level 1")
DecimalKGig == Gig(<<"$", "5">>, <<"1", ".", "5", "K">>, Rating48, "Level 1")
EmptyRatingGig == Gig(<<"$", "2", "0">>, <<"2", "5", "0", "+">>, <<>>, "New Seller")

ModuleRecords ==
    {GoodGig, ZeroOrdersGig, NoDigitPriceGig, CommaPriceGig, DecimalKGig, EmptyRatingGig}

ScrapeRecords == {GoodGig, ZeroOrdersGig, DecimalKGig}

OrderRecords ==
    {Gig(<<"$", "5">>, o, Rating48, "Level 1") :
        o \in {<<"0">>, <<"2", "K">>, <<"3", "K", "+">>, <<"4", "K">>}}

PriceRecords ==
    {Gig(p, <<"1", "0">>, Rating48, "Level 1") :
        p \in {<<"$", "5">>, <<"$", "1", "0">>, <<"$", "1", "0", ".", "5">>, <<"$", "2", "0">>}}

ListsOf(S, n) == UNION {[1..k -> S] : k \in 0..n}

\* random.uniform(1, 24): one draw under 3 hours and one above
ResponseTimes == {2, 12}

EmptyPercentileBuilds == {"nan", "IndexError"}

IoOutcomes == {"None", "OSError"}

InputLines == {<<"l", "o", "g", "o">>, <<" ", "s", "e", "o", " ">>,
               <<" ", "Q", "u", "I", "T", " ">>}

Quit == <<"q", "u", "i", "t">>

Unbound == [exc |-> "unbound", val |-> <<>>]

(***************************************************************************)
(* The metric methods called on a record list, in any order and any number *)
(* of times: metrics holds the outcome of the last call.                   *)
(***************************************************************************)
ModuleInit(lists) ==
    /\ pc = "module"
    /\ gigs_data \in lists
    /\ metrics = Unbound
    /\ called = "none"
    /\ round = 0 /\ line = <<>> /\ keyword = <<>>
    /\ viz_path = Unbound /\ report = Unbound
    /\ e = "None" /\ out = <<>> /\ steps = <<>>
    /\ metrics_cache = {} /\ historical_data = {}

ModuleFrame ==
    UNCHANGED <<pc, round, line, keyword, gigs_data, viz_path, report, e, out, steps,
                metrics_cache, historical_data>>

CallBasicStats ==
    /\ pc = "module"
    /\ \E ep \in EmptyPercentileBuilds :
          metrics' = calculate_basic_stats(gigs_data, ep)
    /\ called' = "calculate_basic_stats"
    /\ ModuleFrame

CallMarketDynamics ==
    /\ pc = "module"
    /\ metrics' = analyze_market_dynamics(gigs_data)
    /\ called' = "analyze_market_dynamics"
    /\ ModuleFrame

CallCompetitors ==
    /\ pc = "module"
    /\ \E rt \in [1..Len(gigs_data) -> ResponseTimes] :
          metrics' = analyze_competitors(gigs_data, rt)
    /\ called' = "analyze_competitors"
    /\ ModuleFrame

CallPricing ==
    /\ pc = "module"
    /\ metrics' = analyze_pricing(gigs_data)
    /\ called' = "analyze_pricing"
    /\ ModuleFrame

\* variant: the result memoised in metrics_cache
CallAdvancedMetricsCaching ==
    /\ pc = "module"
    /\ \E ep \in EmptyPercentileBuilds, rt \in [1..Len(gigs_data) -> ResponseTimes] :
          metrics' = calculate_advanced_metrics(gigs_data, ep, rt)
    /\ metrics_cache' = {metrics'.exc}
    /\ called' = "calculate_advanced_metrics"
    /\ UNCHANGED <<pc, round, line, keyword, gigs_data, viz_path, report, e, out, steps,
                   historical_data>>

CallAdvancedMetrics ==
    /\ pc = "module"
    /\ \E ep \in EmptyPercentileBuilds, rt \in [1..Len(gigs_data) -> ResponseTimes] :
          metrics' = calculate_advanced_metrics(gigs_data, ep, rt)
    /\ called' = "calculate_advanced_metrics"
    /\ ModuleFrame

InitModules == ModuleInit(ListsOf(ModuleRecords, MaxModuleRecords))

NextModules ==
    \/ CallBasicStats
    \/ CallMarketDynamics
    \/ CallCompetitors
    \/ CallPricing
    \/ CallAdvancedMetrics

SpecModules == InitModules /\ [][NextModules]_vars

InitDynamics == ModuleInit(ListsOf(OrderRecords, MaxOrderRecords))

NextDynamics == CallMarketDynamics

SpecDynamics == InitDynamics /\ [][NextDynamics]_vars

InitPricing == ModuleInit(ListsOf(PriceRecords, MaxPriceRecords))

NextPricing == CallPricing

SpecPricing == InitPricing /\ [][NextPricing]_vars

(***************************************************************************)
(* main: the keyword loop.  pc is the call main is about to make; steps    *)
(* lists the calls that have returned for the current keyword; out is what *)
(* main has printed; e is the exception the handler caught for the current *)
(* keyword ("None": none).  The locals of one iteration are dead at the    *)
(* next prompt, and the model unbinds them there.                          *)
(***************************************************************************)
StepOrder == <<"scrape_market_data", "calculate_advanced_metrics",
               "generate_visualizations", "create_report", "save_report">>

StepPcs == {StepOrder[i] : i \in 1..Len(StepOrder)}

Event(kind, msg) == [kind |-> kind, round |-> round, keyword |-> keyword, msg |-> msg]

\* variant: the handler leaves the loop
ExceptEndsLoop(x) ==
    /\ e' = x
    /\ out' = Append(out, Event("error", x))
    /\ pc' = "exited"
    /\ UNCHANGED steps

\* except Exception as e: report the keyword and str(e), back to the prompt
Except(x) ==
    /\ e' = x
    /\ out' = Append(out, Event("error", x))
    /\ pc' = "input"
    /\ UNCHANGED steps

StepReturned(next) ==
    /\ steps' = Append(steps, pc)
    /\ pc' = next
    /\ UNCHANGED <<e, out>>

\* what scrape_market_data, which run.py does not define, can do: hand over a
\* record list or raise
ScrapeOutcomes ==
    {Returned(l) : l \in ListsOf(ScrapeRecords, MaxScraped)} \cup {Raised("TimeoutException")}

Init ==
    /\ pc = "input"
    /\ round = 0
    /\ line = <<>>
    /\ keyword = <<>>
    /\ gigs_data = <<>>
    /\ metrics = Unbound
    /\ viz_path = Unbound
    /\ report = Unbound
    /\ e = "None"
    /\ out = <<>>
    /\ steps = <<>>
    /\ metrics_cache = {}
    /\ historical_data = {}
    /\ called = "none"

Input ==
    /\ pc = "input"
    /\ round < MaxRounds
    /\ \E l \in InputLines :
          /\ line' = l
          /\ keyword' = Strip(l)
          /\ round' = round + 1
          /\ IF Lower(Strip(l)) = Quit
             THEN pc' = "exited" /\ out' = out
             ELSE /\ pc' = "scrape_market_data"
                  /\ out' = Append(out, [kind |-> "analyzing", round |-> round + 1,
                                         keyword |-> Strip(l), msg |-> "None"])
    /\ e' = "None"
    /\ steps' = <<>>
    /\ gigs_data' = <<>>
    /\ metrics' = Unbound
    /\ viz_path' = Unbound
    /\ report' = Unbound
    /\ UNCHANGED <<metrics_cache, historical_data, called>>

ScrapeStep ==
    /\ pc = "scrape_market_data"
    /\ \E r \in ScrapeOutcomes :
          IF r.exc = "None"
          THEN gigs_data' = r.val /\ StepReturned("calculate_advanced_metrics")
          ELSE gigs_data' = gigs_data /\ Except(r.exc)
    /\ UNCHANGED <<round, line, keyword, metrics, viz_path, report,
                   metrics_cache, historical_data, called>>

MetricsStep ==
    /\ pc = "calculate_advanced_metrics"
    /\ \E ep \in EmptyPercentileBuilds, rt \in [1..Len(gigs_data) -> ResponseTimes] :
          LET r == calculate_advanced_metrics(gigs_data, ep, rt)
          IN  IF r.exc = "None"
              THEN metrics' = r /\ StepReturned("generate_visualizations")
              ELSE metrics' = metrics /\ Except(r.exc)
    /\ UNCHANGED <<round, line, keyword, gigs_data, viz_path, report,
                   metrics_cache, historical_data, called>>

VisualizeStep ==
    /\ pc = "generate_visualizations"
    /\ \E io \in IoOutcomes :
          LET r == generate_visualizations(metrics.val, keyword, io)
          IN  IF r.exc = "None"
              THEN viz_path' = r /\ StepReturned("create_report")
              ELSE viz_path' = viz_path /\ Except(r.exc)
    /\ UNCHANGED <<round, line, keyword, gigs_data, metrics, report,
                   metrics_cache, historical_data, called>>

ReportStep ==
    /\ pc = "create_report"
    /\ LET r == create_report(keyword, metrics.val, viz_path.val)
       IN  IF r.exc = "None"
           THEN report' = r /\ StepReturned("save_report")
           ELSE report' = report /\ Except(r.exc)
    /\ UNCHANGED <<round, line, keyword, gigs_data, metrics, viz_path,
                   metrics_cache, historical_data, called>>

\* the prints after save_report returns
PrintComplete(paths) ==
    /\ steps' = Append(steps, pc)
    /\ out' = Append(out, Event("complete", paths))
    /\ pc' = "input"
    /\ UNCHANGED e

\* variant: the report locations printed before save_report is called
SaveStepPrintsFirst ==
    /\ pc = "save_report"
    /\ \E io \in IoOutcomes :
          LET r == save_report(report.val, io)
              printed == Append(out, Event("complete", <<>>))
          IN  IF r.exc = "None"
              THEN /\ steps' = Append(steps, pc) /\ out' = printed /\ e' = e
              ELSE /\ steps' = steps /\ out' = Append(printed, Event("error", r.exc))
                   /\ e' = r.exc
    /\ pc' = "input"
    /\ UNCHANGED <<round, line, keyword, gigs_data, metrics, viz_path, report,
                   metrics_cache, historical_data, called>>

SaveStep ==
    /\ pc = "save_report"
    /\ \E io \in IoOutcomes :
          LET r == save_report(report.val, io)
          IN  IF r.exc = "None" THEN PrintComplete(r.val) ELSE Except(r.exc)
    /\ UNCHANGED <<round, line, keyword, gigs_data, metrics, viz_path, report,
                   metrics_cache, historical_data, called>>

Next ==
    \/ Input
    \/ ScrapeStep
    \/ MetricsStep
    \/ VisualizeStep
    \/ ReportStep
    \/ SaveStep

Spec == Init /\ [][Next]_vars

(***************************************************************************)
(* Properties.                                                             *)
(***************************************************************************)
Last(q) == q[Len(q)]

DynamicsReturned == called = "analyze_market_dynamics" /\ metrics.exc = "None"

Hhi == metrics.val.market_concentration.hhi

Level == metrics.val.market_concentration.concentration_level

OrderTotal == IntSum(OrderValues(gigs_data))

\* C1: a step of one keyword's analysis that raises never ends the loop: the
\* error naming that keyword is printed and main is back at the prompt; the
\* loop is left only from the prompt, on an input whose stripped, lower-cased
\* text is 'quit'.
C1_FailureIsolated ==
    [][/\ (pc \in StepPcs /\ e' # "None") =>
              /\ pc' = "input"
              /\ keyword' = keyword
              /\ out' = Append(out, [kind |-> "error", round |-> round,
                                     keyword |-> keyword, msg |-> e'])
       /\ (pc \in StepPcs) => pc' # "exited"
       /\ (pc' = "exited" /\ pc # "exited") =>
              (pc = "input" /\ Lower(Strip(line')) = Quit)]_vars

\* a first keyword failed and the second keyword is being analysed
C1_Witness ==
    /\ round = 2
    /\ pc = "calculate_advanced_metrics"
    /\ \E i \in DOMAIN out : out[i].kind = "error" /\ out[i].round = 1
                              /\ out[i].keyword # keyword

\* C2: on an empty record list calculate_advanced_metrics lets no exception
\* escape and returns a result flagged as no-data whose groups are "Unknown".
C2_EmptyIsFlaggedNoData ==
    (called = "calculate_advanced_metrics" /\ gigs_data = <<>>) =>
        /\ metrics.exc = "None"
        /\ "UpstreamCollectionError" \in DOMAIN metrics.val
        /\ metrics.val.market_dynamics.market_concentration.concentration_level = "Unknown"

\* C3: on a non-empty record list whose order counts sum to 0,
\* analyze_market_dynamics returns hhi = 0 and level "Low" and does not raise.
C3_ZeroTotalIsLow ==
    (called = "analyze_market_dynamics" /\ gigs_data # <<>> /\ OrdersParse(gigs_data) /\ OrderTotal = 0) =>
        /\ metrics.exc = "None"
        /\ Hhi = RInt(0)
        /\ Level = "Low"

Malformed(gig) ==
    \/ ParsePrice(gig).exc # "None"
    \/ ParseOrders(gig).exc # "None"
    \/ ParseRating(gig).exc # "None"

\* C4: with a record whose price, orders or rating text is malformed,
\* calculate_basic_stats, analyze_market_dynamics, analyze_competitors and
\* analyze_pricing complete without an exception.
C4_MalformedFieldDoesNotRaise ==
    (/\ called \in {"calculate_basic_stats", "analyze_market_dynamics",
                    "analyze_competitors", "analyze_pricing"}
     /\ \E i \in DOMAIN gigs_data : Malformed(gigs_data[i])) =>
        metrics.exc = "None"

\* C5: the concentration level is "High" exactly when HHI > 2500, "Moderate"
\* exactly when 1500 < HHI <= 2500, and "Low" exactly when HHI <= 1500.
C5_Thresholds ==
    DynamicsReturned =>
        /\ (Level = "High") <=> RGt(Hhi, RInt(2500))
        /\ (Level = "Moderate") <=> (RGt(Hhi, RInt(1500)) /\ RLe(Hhi, RInt(2500)))
        /\ (Level = "Low") <=> RLe(Hhi, RInt(1500))

\* four sellers with equal orders: HHI is exactly 2500
C5_Witness == DynamicsReturned /\ Hhi = RInt(2500) /\ Level = "Moderate"

\* C6 as stated: HHI exactly 1500 and HHI exactly 2500 are both "Moderate".
C6_BoundariesBothModerate ==
    (DynamicsReturned /\ Hhi \in {RInt(1500), RInt(2500)}) => Level = "Moderate"

\* C6 as amended: HHI exactly 1500 is "Low" and HHI exactly 2500 is "Moderate".
C6_BoundaryLabels ==
    DynamicsReturned =>
        /\ (Hhi = RInt(1500)) => Level = "Low"
        /\ (Hhi = RInt(2500)) => Level = "Moderate"

\* seven sellers with orders 4K, 3K, 3K, 3K, 3K, 2K, 2K in some order
C6_Witness == DynamicsReturned /\ Hhi = RInt(1500) /\ Level = "Low"

Prices == PriceValues(gigs_data)

P33 == Percentile(Prices, 33)

P66 == Percentile(Prices, 66)

Segments == metrics.val.price_segments

C9_Frame ==
    /\ metrics_cache = {} /\ historical_data = {}
    /\ [][/\ gigs_data' = gigs_data
          /\ metrics_cache' = {}
          /\ historical_data' = {}]_vars

\* calculate_advanced_metrics has raised on a two-record list
C9_Witness ==
    /\ called = "calculate_advanced_metrics"
    /\ metrics.exc = "ZeroDivisionError"
    /\ Len(gigs_data) = 2
    /\ metrics_cache = {} /\ historical_data = {}

NoKeywordBothCompleteAndError ==
    \A i, j \in DOMAIN out :
        out[i].round = out[j].round => ~(out[i].kind = "complete" /\ out[j].kind = "error")

StepsInOrder ==
    /\ \E k \in 0..Len(StepOrder) : steps = SubSeq(StepOrder, 1, k)
    /\ \A k \in 1..Len(StepOrder) : pc = StepOrder[k] => steps = SubSeq(StepOrder, 1, k - 1)

\* C10: for each keyword the five steps run in the fixed order, each started
\* only after the one before it returned; the report locations are printed
\* only once all five have returned, and no keyword gets both the report
\* locations and the error message.
C10_StepOrder ==
    /\ [](StepsInOrder /\ NoKeywordBothCompleteAndError)
    /\ [][(Len(out') > Len(out) /\ \E i \in (Len(out) + 1)..Len(out') : out'[i].kind = "complete")
             => steps' = StepOrder]_vars

\* four steps returned for the keyword, save_report raised, the error is
\* printed and nothing else
C10_Witness ==
    /\ pc = "input"
    /\ steps = SubSeq(StepOrder, 1, 4)
    /\ e = "TypeError"
    /\ Last(out).kind = "error" /\ Last(out).keyword = keyword

====
